---- MODULE Spec2Model ----
(***************************************************************************)
(* react-redux-component-init: the initComponent thunk                     *)
(* (actions/initComponent.js) run against the init reducer's state         *)
(* {mode, prepared, selfInit}.                                             *)
(*                                                                         *)
(* Every invocation of the thunk is a small process.  Its synchronous body *)
(* (validation, decision, start dispatch) is one step; every callback of   *)
(* the promise chain that follows is one step; the settling of an action's *)
(* promise is a step of the environment.  Steps of different invocations   *)
(* interleave freely, which is what the JavaScript event loop allows for   *)
(* invocations made from different ticks or whose actions settle at        *)
(* different times.                                                        *)
(***************************************************************************)
EXTENDS Naturals, FiniteSets, Sequences, TLC

\* ----------------------------------------------------------------- bounds
MaxInvocations == 2
NumKeys == 2

Invocations == 1..MaxInvocations
PrepareKeys == 1..NumKeys

\* -------------------------------------------------------------- constants
MODE_PREPARE == "MODE_PREPARE"
MODE_INIT_SELF == "MODE_INIT_SELF"

INIT_SELF_NEVER == "NEVER"
INIT_SELF_ASYNC == "ASYNC"
INIT_SELF_BLOCKING == "BLOCKING"
InitSelfModes == {INIT_SELF_NEVER, INIT_SELF_ASYNC, INIT_SELF_BLOCKING}

\* the four callers the switch knows, and one it does not
ValidCallers == {"prepareComponent", "willMount", "didMount", "willReceiveProps"}
Callers == ValidCallers \cup {"render"}

\* a value of prepared[key] / selfInit[key]: undefined, false or true
Undefined == "undefined"

\* What a supplied action can do when it is called: return a promise, throw,
\* return a value that is not awaitable but whose property `then` can be read
\* (a number, a plain object), or return undefined/null.
ActionReturns == {"promise", "throws", "number", "object", "undefined", "null"}
NonAwaitables == {"number", "object", "undefined", "null"}
\* the values the actions' promises resolve with
PrimaryValues == {"P"}
ClientValues == {"C"}
\* the reasons an action's promise rejects with: an Error, or no reason at all
RejectReasons == {"Error", "undefined"}
\* the failures an action itself raises, by throwing or by rejecting
ActionFailures == {"Error"} \cup RejectReasons

\* JavaScript values of results: undefined, a scalar, a two-element array
UndefinedValue == <<>>
Scalar(v) == <<v>>
Pair(a, b) == <<"array", a, b>>

VARIABLES
  mode,       \* initState.mode
  prepared,   \* initState.prepared : key -> undefined | false | true
  selfInit,   \* initState.selfInit : key -> undefined | false | true
  initConfig, \* Component.initConfig of the wrapped component
  inv         \* the invocations of initComponent, by number

vars == <<mode, prepared, selfInit, initConfig, inv>>

\* Component.initConfig: which actions are supplied, and the options
InitConfigs ==
  [initAction : BOOLEAN, initActionClient : BOOLEAN, onError : BOOLEAN,
   initSelf : InitSelfModes, allowLazy : BOOLEAN]

\* an invocation that has not been made yet
Idle ==
  [pc |-> "idle", caller |-> "none", prepareKey |-> 0, observed |-> Undefined,
   observedMode |-> "none",
   shouldCallInitAction |-> FALSE, shouldCallInitActionClient |-> FALSE,
   initActionReturn |-> "none", initActionPromise |-> "none",
   initActionClientReturn |-> "none", initActionClientPromise |-> "none",
   serverValue |-> UndefinedValue, clientValue |-> UndefinedValue,
   e |-> "none", isInvalidReturnError |-> FALSE,
   starts |-> 0, ends |-> 0,
   initActionCalls |-> 0, initActionClientCalls |-> 0,
   onErrorCalls |-> 0, onErrorArg |-> "none",
   outcome |-> "none", result |-> UndefinedValue, error |-> "none"]

\* ------------------------------------------------------- decision (switch)
\* mutant: a key counts as prepared only once its preparation is complete
IsPrepared_OnlyWhenComplete(p) == p = "true"

\* isPrepared: typeof prepared[prepareKey] !== 'undefined'
IsPrepared(p) == p # Undefined

\* mutant: the allowLazy test of case 'willMount' without its negation
ErrorNotPrepared_LazyFlipped(caller, cfg, m) ==
  caller = "willMount" /\ cfg.initAction /\ m = MODE_PREPARE /\ cfg.allowLazy

\* errorNotPrepared of the switch on caller (the default case throws: see
\* ValidationError)
ErrorNotPrepared(caller, cfg, m) ==
  CASE caller = "prepareComponent" -> FALSE
    [] caller = "willMount" -> cfg.initAction /\ m = MODE_PREPARE /\ ~cfg.allowLazy
    [] caller = "didMount" -> FALSE
    [] caller = "willReceiveProps" -> FALSE
    [] OTHER -> FALSE

\* mutant: case 'prepareComponent' without the isPrepared test
ShouldCallInitAction_IgnoresPrepared(caller, cfg, m, isPrepared) ==
  CASE caller = "prepareComponent" -> cfg.initAction
    [] caller = "willMount" ->
         cfg.initAction /\
         ((m = MODE_INIT_SELF /\ cfg.initSelf # INIT_SELF_NEVER /\ ~cfg.allowLazy) \/
          (m = MODE_PREPARE /\ ~isPrepared /\ cfg.allowLazy))
    [] caller = "didMount" ->
         cfg.initAction /\
         ((m = MODE_INIT_SELF /\ cfg.initSelf # INIT_SELF_NEVER /\ cfg.allowLazy) \/
          (m = MODE_PREPARE /\ ~isPrepared /\ cfg.allowLazy))
    [] caller = "willReceiveProps" -> cfg.initAction
    [] OTHER -> FALSE

\* shouldCallInitAction of the switch on caller
ShouldCallInitAction(caller, cfg, m, isPrepared) ==
  CASE caller = "prepareComponent" -> cfg.initAction /\ ~isPrepared
    [] caller = "willMount" ->
         cfg.initAction /\
         ((m = MODE_INIT_SELF /\ cfg.initSelf # INIT_SELF_NEVER /\ ~cfg.allowLazy) \/
          (m = MODE_PREPARE /\ ~isPrepared /\ cfg.allowLazy))
    [] caller = "didMount" ->
         cfg.initAction /\
         ((m = MODE_INIT_SELF /\ cfg.initSelf # INIT_SELF_NEVER /\ cfg.allowLazy) \/
          (m = MODE_PREPARE /\ ~isPrepared /\ cfg.allowLazy))
    [] caller = "willReceiveProps" -> cfg.initAction
    [] OTHER -> FALSE

\* mutant: case 'didMount' without the initSelf test
ShouldCallInitActionClient_NoInitSelfTest(caller, cfg) ==
  caller \in {"didMount", "willReceiveProps"} /\ cfg.initActionClient

\* shouldCallInitActionClient of the switch on caller
ShouldCallInitActionClient(caller, cfg) ==
  CASE caller = "prepareComponent" -> FALSE
    [] caller = "willMount" -> FALSE
    [] caller = "didMount" -> cfg.initActionClient /\ cfg.initSelf # INIT_SELF_NEVER
    [] caller = "willReceiveProps" -> cfg.initActionClient
    [] OTHER -> FALSE

\* the failure the synchronous body throws before anything else, or "none"
ValidationError(hasInitConfig, hasInitState, caller, cfg, m, p) ==
  IF ~hasInitConfig THEN "MissingInitConfig"
  ELSE IF ~hasInitState THEN "MissingInitState"
  ELSE IF caller \notin ValidCallers THEN "InvalidCaller"
  ELSE IF ErrorNotPrepared(caller, cfg, m) /\ p = Undefined THEN "PreparationMissing"
  ELSE IF ErrorNotPrepared(caller, cfg, m) /\ p = "false" THEN "PreparationPending"
  ELSE "none"

\* mutant: the start dispatch without the no-op return before it
DispatchesStart_WithoutNoopReturn(verr, sia, sic) == verr = "none"

\* mutant: the start dispatch ahead of the validation
DispatchesStart_BeforeValidation(verr, sia, sic) == sia \/ sic

\* mutant: the start dispatch left out
DispatchesStart_Never(verr, sia, sic) == FALSE

\* whether the synchronous body reaches the start dispatch
DispatchesStart(verr, sia, sic) == verr = "none" /\ (sia \/ sic)

\* ------------------------------------------------------------ the reducer
\* INIT_COMPONENT folded into prepared (isPrepare) or selfInit (otherwise)
ReducePrepared(p, isPrepare, key, complete) ==
  IF isPrepare THEN [p EXCEPT ![key] = IF complete THEN "true" ELSE "false"] ELSE p

ReduceSelfInit(s, isPrepare, key, complete) ==
  IF isPrepare THEN s ELSE [s EXCEPT ![key] = IF complete THEN "true" ELSE "false"]

\* dispatch({type: INIT_COMPONENT, payload: {complete, isPrepare, prepareKey}})
Dispatch(isPrepare, key, complete) ==
  /\ prepared' = ReducePrepared(prepared, isPrepare, key, complete)
  /\ selfInit' = ReduceSelfInit(selfInit, isPrepare, key, complete)
  /\ UNCHANGED mode

\* mutant: every notification flagged isPrepare
CallerIsPrepare_Always(r) == TRUE

\* mutant: no notification flagged isPrepare
CallerIsPrepare_Never(r) == FALSE

\* mutant: the flag negated
CallerIsPrepare_Negated(r) == r.caller # "prepareComponent"

\* callerIsPrepare
CallerIsPrepare(r) == r.caller = "prepareComponent"

\* ---------------------------------------------------------------- actions
Init ==
  /\ mode = MODE_PREPARE
  /\ prepared = [k \in PrepareKeys |-> Undefined]
  /\ selfInit = [k \in PrepareKeys |-> Undefined]
  /\ initConfig \in InitConfigs
  /\ inv = [i \in Invocations |-> Idle]

\* setInitMode(MODE_INIT_SELF), dispatched by the application after the first
\* render
SetInitMode ==
  /\ mode = MODE_PREPARE
  /\ mode' = MODE_INIT_SELF
  /\ UNCHANGED <<prepared, selfInit, initConfig, inv>>

\* Prepare keys are opaque and interchangeable: an invocation uses a key an
\* earlier invocation used, or the first key nobody has used.
FreshKeyOrUsed(key) ==
  \A k \in PrepareKeys : k < key => \E j \in Invocations : inv[j].prepareKey = k

\* The synchronous body of the thunk: validation, the decision, the no-op
\* return or the start dispatch followed by Promise.resolve().then(...).
Call(i, caller, key, hasInitConfig, hasInitState) ==
  /\ inv[i].pc = "idle"
  /\ \A j \in Invocations : j < i => inv[j].pc # "idle"
  /\ FreshKeyOrUsed(key)
  /\ LET p == prepared[key]
         isPrepared == IsPrepared(p)
         verr == ValidationError(hasInitConfig, hasInitState, caller, initConfig, mode, p)
         sia == ShouldCallInitAction(caller, initConfig, mode, isPrepared)
         sic == ShouldCallInitActionClient(caller, initConfig)
         start == DispatchesStart(verr, sia, sic)
         read == hasInitConfig /\ hasInitState
         called == [inv[i] EXCEPT !.caller = caller, !.prepareKey = key,
                                  !.observed = IF read THEN p ELSE Undefined,
                                  !.observedMode = IF read THEN mode ELSE "none",
                                  !.starts = IF start THEN 1 ELSE 0]
     IN /\ inv' = [inv EXCEPT ![i] =
                IF verr # "none"
                THEN [called EXCEPT !.pc = "done", !.outcome = "threw", !.error = verr]
                ELSE IF ~sia /\ ~sic
                THEN [called EXCEPT !.pc = "done", !.outcome = "resolved"]
                ELSE [called EXCEPT !.pc = "then1", !.shouldCallInitAction = sia,
                                    !.shouldCallInitActionClient = sic]]
        /\ IF start
           THEN Dispatch(CallerIsPrepare(called), key, FALSE)
           ELSE UNCHANGED <<mode, prepared, selfInit>>
  /\ UNCHANGED initConfig

\* mutant: the first then callback does not return the promise of initAction,
\* so the chain goes on without waiting for it
AwaitInitAction_NotReturned == "then2"

\* where the chain goes once an action has returned a promise: the chain
\* adopts the promise and waits for it
AwaitInitAction == "awaitInitAction"

\* mutant: the second then callback does not return the promise of
\* initActionClient
AwaitInitActionClient_NotReturned == "finalThen"

AwaitInitActionClient == "awaitInitActionClient"

\* the failure of the awaitable check on what an action returned: the check
\* reads the property `then` of the returned value
AwaitableCheck(ret) ==
  IF ret \in {"undefined", "null"}
  THEN [e |-> "TypeError", isInvalidReturnError |-> FALSE]
  ELSE [e |-> "InvalidActionReturn", isInvalidReturnError |-> TRUE]

\* mutant: the innermost then callback without the case of both actions
Combine_NoArray(sia, sic, serverValue, clientValue) ==
  IF sia THEN serverValue ELSE clientValue

\* the innermost then callback: the combined result
Combine(sia, sic, serverValue, clientValue) ==
  IF sia /\ sic THEN Pair(serverValue, clientValue)
  ELSE IF sia THEN serverValue ELSE clientValue

\* First then callback: call initAction (or take the resolved placeholder)
\* and check that what it returned is awaitable.
Then1(i, ret) ==
  /\ inv[i].pc = "then1"
  /\ LET r == inv[i] IN
     IF r.shouldCallInitAction
     THEN LET c == [r EXCEPT !.initActionCalls = @ + 1] IN
          inv' = [inv EXCEPT ![i] =
            CASE ret = "promise" ->
                   [c EXCEPT !.initActionReturn = ret, !.initActionPromise = "pending",
                             !.pc = AwaitInitAction]
              [] ret = "throws" ->
                   [c EXCEPT !.e = "Error", !.pc = "catch"]
              [] OTHER ->
                   [c EXCEPT !.initActionReturn = ret, !.pc = "catch",
                             !.e = AwaitableCheck(ret).e,
                             !.isInvalidReturnError = AwaitableCheck(ret).isInvalidReturnError]]
     ELSE /\ ret = "promise"
          /\ inv' = [inv EXCEPT ![i] =
               [r EXCEPT !.initActionReturn = "promise", !.initActionPromise = "resolved",
                         !.pc = "then2"]]
  /\ UNCHANGED <<mode, prepared, selfInit, initConfig>>

\* the promise initAction returned resolves
InitActionResolves(i, v) ==
  /\ inv[i].pc = "awaitInitAction"
  /\ inv[i].initActionPromise = "pending"
  /\ inv' = [inv EXCEPT ![i] =
       [@ EXCEPT !.initActionPromise = "resolved", !.serverValue = Scalar(v), !.pc = "then2"]]
  /\ UNCHANGED <<mode, prepared, selfInit, initConfig>>

\* mutant: the rejection of initAction is passed to the second then callback
InitActionRejects_Continues(i, reason) ==
  /\ inv[i].pc = "awaitInitAction"
  /\ inv[i].initActionPromise = "pending"
  /\ inv' = [inv EXCEPT ![i] =
       [@ EXCEPT !.initActionPromise = "rejected", !.e = reason, !.pc = "then2"]]
  /\ UNCHANGED <<mode, prepared, selfInit, initConfig>>

\* the promise initAction returned rejects
InitActionRejects(i, reason) ==
  /\ inv[i].pc = "awaitInitAction"
  /\ inv[i].initActionPromise = "pending"
  /\ inv' = [inv EXCEPT ![i] =
       [@ EXCEPT !.initActionPromise = "rejected", !.e = reason, !.pc = "catch"]]
  /\ UNCHANGED <<mode, prepared, selfInit, initConfig>>

\* Second then callback: call initActionClient (or take the resolved
\* placeholder) and check that what it returned is awaitable.
Then2(i, ret) ==
  /\ inv[i].pc = "then2"
  /\ LET r == inv[i] IN
     IF r.shouldCallInitActionClient
     THEN LET c == [r EXCEPT !.initActionClientCalls = @ + 1] IN
          inv' = [inv EXCEPT ![i] =
            CASE ret = "promise" ->
                   [c EXCEPT !.initActionClientReturn = ret,
                             !.initActionClientPromise = "pending",
                             !.pc = AwaitInitActionClient]
              [] ret = "throws" ->
                   [c EXCEPT !.e = "Error", !.pc = "catch"]
              [] OTHER ->
                   [c EXCEPT !.initActionClientReturn = ret, !.pc = "catch",
                             !.e = AwaitableCheck(ret).e,
                             !.isInvalidReturnError = AwaitableCheck(ret).isInvalidReturnError]]
     ELSE /\ ret = "promise"
          /\ inv' = [inv EXCEPT ![i] =
               [r EXCEPT !.initActionClientReturn = "promise",
                         !.initActionClientPromise = "resolved",
                         !.result = Combine(r.shouldCallInitAction,
                                            r.shouldCallInitActionClient,
                                            r.serverValue, UndefinedValue),
                         !.pc = "finalThen"]]
  /\ UNCHANGED <<mode, prepared, selfInit, initConfig>>

\* the promise initActionClient returned resolves, and the innermost then
\* callback combines the two values
InitActionClientResolves(i, v) ==
  /\ inv[i].pc = "awaitInitActionClient"
  /\ inv[i].initActionClientPromise = "pending"
  /\ LET r == inv[i] IN
     inv' = [inv EXCEPT ![i] =
       [r EXCEPT !.initActionClientPromise = "resolved", !.clientValue = Scalar(v),
                 !.result = Combine(r.shouldCallInitAction, r.shouldCallInitActionClient,
                                    r.serverValue, Scalar(v)),
                 !.pc = "finalThen"]]
  /\ UNCHANGED <<mode, prepared, selfInit, initConfig>>

\* the promise initActionClient returned rejects
InitActionClientRejects(i, reason) ==
  /\ inv[i].pc = "awaitInitActionClient"
  /\ inv[i].initActionClientPromise = "pending"
  /\ inv' = [inv EXCEPT ![i] =
       [@ EXCEPT !.initActionClientPromise = "rejected", !.e = reason, !.pc = "catch"]]
  /\ UNCHANGED <<mode, prepared, selfInit, initConfig>>

\* which branch the catch callback takes on failure e:
\*   "handle"  onError(e)
\*   "rethrow" dispatch the end notification and throw e
\*   "crash"   the test itself throws, reading a property of undefined
CatchBranch(onError, e, isInvalidReturnError) ==
  IF ~onError THEN "rethrow"
  ELSE IF e = "undefined" THEN "crash"
  ELSE IF ~isInvalidReturnError THEN "handle"
  ELSE "rethrow"

\* mutant: the else branch rethrows before it dispatches the end notification
Catch_RethrowBeforeEnd(i, onErrorThrows) ==
  /\ inv[i].pc = "catch"
  /\ LET r == inv[i]
         branch == CatchBranch(initConfig.onError, r.e, r.isInvalidReturnError)
     IN CASE branch = "handle" ->
               /\ inv' = [inv EXCEPT ![i] =
                    LET h == [r EXCEPT !.onErrorCalls = @ + 1, !.onErrorArg = r.e] IN
                    IF onErrorThrows
                    THEN [h EXCEPT !.pc = "done", !.outcome = "rejected",
                                   !.error = "onErrorError"]
                    ELSE [h EXCEPT !.pc = "finalThen", !.result = UndefinedValue]]
          [] branch = "rethrow" ->
               /\ ~onErrorThrows
               /\ inv' = [inv EXCEPT ![i] =
                    [r EXCEPT !.pc = "done", !.outcome = "rejected", !.error = r.e]]
          [] branch = "crash" ->
               /\ ~onErrorThrows
               /\ inv' = [inv EXCEPT ![i] =
                    [r EXCEPT !.pc = "done", !.outcome = "rejected", !.error = "TypeError"]]
  /\ UNCHANGED <<mode, prepared, selfInit, initConfig>>

\* The catch callback.  onErrorThrows: whether the handler the application
\* supplied throws.
Catch(i, onErrorThrows) ==
  /\ inv[i].pc = "catch"
  /\ LET r == inv[i]
         branch == CatchBranch(initConfig.onError, r.e, r.isInvalidReturnError)
     IN CASE branch = "handle" ->
               /\ inv' = [inv EXCEPT ![i] =
                    LET h == [r EXCEPT !.onErrorCalls = @ + 1, !.onErrorArg = r.e] IN
                    IF onErrorThrows
                    THEN [h EXCEPT !.pc = "done", !.outcome = "rejected",
                                   !.error = "onErrorError"]
                    ELSE [h EXCEPT !.pc = "finalThen", !.result = UndefinedValue]]
               /\ UNCHANGED <<mode, prepared, selfInit>>
          [] branch = "rethrow" ->
               /\ ~onErrorThrows
               /\ inv' = [inv EXCEPT ![i] =
                    [r EXCEPT !.pc = "done", !.ends = @ + 1, !.outcome = "rejected",
                              !.error = r.e]]
               /\ Dispatch(CallerIsPrepare(r), r.prepareKey, TRUE)
          [] branch = "crash" ->
               /\ ~onErrorThrows
               /\ inv' = [inv EXCEPT ![i] =
                    [r EXCEPT !.pc = "done", !.outcome = "rejected", !.error = "TypeError"]]
               /\ UNCHANGED <<mode, prepared, selfInit>>
  /\ UNCHANGED initConfig

\* The final then callback: the end notification, then the result.
FinalThen(i) ==
  /\ inv[i].pc = "finalThen"
  /\ inv' = [inv EXCEPT ![i] =
       [@ EXCEPT !.pc = "done", !.ends = @ + 1, !.outcome = "resolved"]]
  /\ Dispatch(CallerIsPrepare(inv[i]), inv[i].prepareKey, TRUE)
  /\ UNCHANGED initConfig

Next ==
  \/ SetInitMode
  \/ \E i \in Invocations, c \in Callers, k \in PrepareKeys, hc \in BOOLEAN, hs \in BOOLEAN :
       Call(i, c, k, hc, hs)
  \/ \E i \in Invocations, ret \in ActionReturns : Then1(i, ret)
  \/ \E i \in Invocations, v \in PrimaryValues : InitActionResolves(i, v)
  \/ \E i \in Invocations, reason \in RejectReasons : InitActionRejects(i, reason)
  \/ \E i \in Invocations, ret \in ActionReturns : Then2(i, ret)
  \/ \E i \in Invocations, v \in ClientValues : InitActionClientResolves(i, v)
  \/ \E i \in Invocations, reason \in RejectReasons : InitActionClientRejects(i, reason)
  \/ \E i \in Invocations, t \in BOOLEAN : Catch(i, t)
  \/ \E i \in Invocations : FinalThen(i)

Spec == Init /\ [][Next]_vars

\* ------------------------------------------------------------------ claims
ValidationErrors ==
  {"MissingInitConfig", "MissingInitState", "InvalidCaller",
   "PreparationMissing", "PreparationPending"}

\* C1: every invocation that passed validation and emitted a start
\* notification emits the end notification exactly once: never twice, and once
\* it has finished never zero times.
C1_EndExactlyOnce ==
  \A i \in Invocations :
    /\ inv[i].ends <= 1
    /\ (inv[i].pc = "done" /\ inv[i].starts > 0) => inv[i].ends = 1

\* C2: an invocation with caller = 'prepareComponent' that observed
\* prepared[prepareKey] as defined (false or true) never invokes initAction.
C2_PreparedNeverRunsPrimary ==
  \A i \in Invocations :
    (inv[i].caller = "prepareComponent" /\ inv[i].observed # Undefined)
      => inv[i].initActionCalls = 0

\* C2 witness: a finished prepareComponent invocation of a component that has
\* an initAction, made when the key was already prepared.
C2_Witness ==
  \E i \in Invocations :
    /\ inv[i].caller = "prepareComponent"
    /\ inv[i].observed # Undefined
    /\ inv[i].pc = "done"
    /\ initConfig.initAction

\* what C3 says of one invocation
WillMountFailsUnprepared(r) ==
  /\ r.observed = Undefined => (r.outcome = "threw" /\ r.error = "PreparationMissing")
  /\ r.observed = "false" => (r.outcome = "threw" /\ r.error = "PreparationPending")

\* C3 as stated: every willMount invocation made in MODE_PREPARE with
\* allowLazy = false fails with PreparationMissing when prepared[prepareKey]
\* is absent and with PreparationPending when it is false, whatever actions the
\* component supplies.
C3_WillMountFailsUnprepared ==
  \A i \in Invocations :
    (inv[i].caller = "willMount" /\ inv[i].observedMode = MODE_PREPARE
       /\ ~initConfig.allowLazy)
      => WillMountFailsUnprepared(inv[i])

\* C3 amended: the same, for components that supply a primary action
\* (initAction).
C3_WillMountFailsUnpreparedWithPrimary ==
  \A i \in Invocations :
    (inv[i].caller = "willMount" /\ inv[i].observedMode = MODE_PREPARE
       /\ ~initConfig.allowLazy /\ initConfig.initAction)
      => WillMountFailsUnprepared(inv[i])

\* C3 witness: a willMount invocation failed with PreparationPending while a
\* preparation of the same key is in flight, or with PreparationMissing after
\* another key was prepared.
C3_Witness ==
  \E i, j \in Invocations :
    /\ inv[i].caller = "willMount"
    /\ inv[j].caller = "prepareComponent" /\ inv[j].starts = 1
    /\ \/ inv[i].error = "PreparationPending" /\ inv[j].prepareKey = inv[i].prepareKey
       \/ inv[i].error = "PreparationMissing" /\ inv[j].prepareKey # inv[i].prepareKey

\* C4: when an action that is run returns something that is not awaitable (a
\* number, a plain object, undefined, null), the call rejects with the flagged
\* InvalidActionReturn failure and onError is never invoked.
C4_NonAwaitableRejectsFlagged ==
  \A i \in Invocations :
    (inv[i].initActionReturn \in NonAwaitables
       \/ inv[i].initActionClientReturn \in NonAwaitables)
      => /\ inv[i].onErrorCalls = 0
         /\ inv[i].pc = "done" =>
              /\ inv[i].outcome = "rejected"
              /\ inv[i].error = "InvalidActionReturn" /\ inv[i].isInvalidReturnError

\* C5: when a scheduled action fails (throws or rejects) and onError is
\* configured, a finished invocation has invoked onError exactly once with
\* that failure, has resolved with the empty value and has emitted the end
\* notification.
C5_OnErrorShieldsCaller ==
  \A i \in Invocations :
    (inv[i].pc = "done" /\ initConfig.onError /\ inv[i].e \in ActionFailures
       /\ inv[i].initActionReturn \notin NonAwaitables
       /\ inv[i].initActionClientReturn \notin NonAwaitables)
      => /\ inv[i].onErrorCalls = 1 /\ inv[i].onErrorArg = inv[i].e
         /\ inv[i].outcome = "resolved" /\ inv[i].result = UndefinedValue
         /\ inv[i].ends = 1

\* one step of a record that only moves undefined -> false -> true
MonotoneStep(a, b) ==
  \/ a = b
  \/ a = Undefined /\ b = "false"
  \/ a = "false" /\ b = "true"

\* C6 as stated: no step moves prepared[key] or selfInit[key] otherwise than
\* undefined -> false -> true.
C6_BothMapsMonotone ==
  [][\A k \in PrepareKeys :
       /\ MonotoneStep(prepared[k], prepared'[k])
       /\ MonotoneStep(selfInit[k], selfInit'[k])]_vars

\* C6 amended: prepared[key] only moves undefined -> false -> true;
\* selfInit[key] leaves undefined only to false and never returns to
\* undefined, but a later start notification moves it from true back to false.
C6_PreparedMonotoneSelfInitDefined ==
  [][\A k \in PrepareKeys :
       /\ MonotoneStep(prepared[k], prepared'[k])
       /\ (selfInit[k] = Undefined => selfInit'[k] \in {Undefined, "false"})
       /\ (selfInit[k] # Undefined => selfInit'[k] # Undefined)]_vars

\* C6 witness: one key was prepared to completion and self-initialized to
\* completion by two different invocations.
C6_Witness ==
  \E k \in PrepareKeys :
    /\ prepared[k] = "true" /\ selfInit[k] = "true"
    /\ \E i, j \in Invocations :
         /\ inv[i].prepareKey = k /\ inv[i].caller = "prepareComponent" /\ inv[i].ends = 1
         /\ inv[j].prepareKey = k /\ inv[j].caller # "prepareComponent" /\ inv[j].ends = 1

\* C7: an invocation that passes validation and schedules neither action
\* returns at once, resolved with the empty value, emits no notification,
\* invokes no action and leaves prepared and selfInit as they were.
C7_NothingScheduledIsNoop ==
  [][\A i \in Invocations :
       (inv[i].pc = "idle" /\ inv'[i].pc # "idle" /\ inv'[i].error = "none"
          /\ ~ShouldCallInitAction(inv'[i].caller, initConfig, mode,
                                   prepared[inv'[i].prepareKey] # Undefined)
          /\ ~ShouldCallInitActionClient(inv'[i].caller, initConfig))
         => /\ inv'[i].pc = "done" /\ inv'[i].outcome = "resolved"
            /\ inv'[i].result = UndefinedValue
            /\ inv'[i].starts = 0 /\ inv'[i].ends = 0
            /\ inv'[i].initActionCalls = 0 /\ inv'[i].initActionClientCalls = 0
            /\ prepared' = prepared /\ selfInit' = selfInit]_vars

\* C7 witness: a didMount invocation in MODE_INIT_SELF resolved without
\* scheduling anything although the component supplies both actions.
C7_Witness ==
  \E i \in Invocations :
    /\ inv[i].pc = "done" /\ inv[i].outcome = "resolved" /\ inv[i].starts = 0
    /\ inv[i].caller = "didMount" /\ inv[i].observedMode = MODE_INIT_SELF
    /\ initConfig.initAction /\ initConfig.initActionClient

\* C8: initActionClient is invoked only once the promise of initAction (or its
\* resolved placeholder) has resolved, and the two actions of one invocation
\* are never pending together.
C8_ClientAfterPrimaryResolved ==
  \A i \in Invocations :
    /\ (inv[i].initActionClientCalls > 0 \/ inv[i].initActionClientPromise # "none")
         => inv[i].initActionPromise = "resolved"
    /\ ~(inv[i].initActionPromise = "pending" /\ inv[i].initActionClientPromise = "pending")

\* C8 witness: both actions were invoked and the client action is in flight.
C8_Witness ==
  \E i \in Invocations :
    /\ inv[i].initActionCalls = 1 /\ inv[i].initActionClientCalls = 1
    /\ inv[i].initActionClientPromise = "pending"

\* C9: a call that fails validation throws one of the five validation
\* failures at once, having emitted no notification and invoked no action, and
\* leaves prepared and selfInit as they were.
C9_ValidationFailsBeforeAnyEffect ==
  [][\A i \in Invocations :
       (inv[i].pc = "idle" /\ inv'[i].pc # "idle"
          /\ (inv'[i].outcome = "threw" \/ inv'[i].error \in ValidationErrors))
         => /\ inv'[i].pc = "done" /\ inv'[i].outcome = "threw"
            /\ inv'[i].error \in ValidationErrors
            /\ inv'[i].starts = 0 /\ inv'[i].ends = 0
            /\ inv'[i].initActionCalls = 0 /\ inv'[i].initActionClientCalls = 0
            /\ prepared' = prepared /\ selfInit' = selfInit]_vars

\* C9 witness: one call failed with InvalidCaller and another with
\* PreparationMissing.
C9_Witness ==
  \E i, j \in Invocations :
    /\ inv[i].outcome = "threw" /\ inv[i].error = "InvalidCaller"
    /\ inv[j].outcome = "threw" /\ inv[j].error = "PreparationMissing"

\* C10: on the success path the call resolves with [primary, restricted] when
\* both actions ran, with the one result when one action ran, and with the
\* empty value when none ran.
C10_CombinedResult ==
  \A i \in Invocations :
    (inv[i].pc = "done" /\ inv[i].outcome = "resolved" /\ inv[i].e = "none")
      => LET r == inv[i]
             ranPrimary == r.initActionCalls = 1
             ranClient == r.initActionClientCalls = 1
         IN /\ ranPrimary => r.serverValue \in {<<v>> : v \in PrimaryValues}
            /\ ranClient => r.clientValue \in {<<v>> : v \in ClientValues}
            /\ r.result = IF ranPrimary /\ ranClient
                          THEN <<"array", r.serverValue, r.clientValue>>
                          ELSE IF ranPrimary THEN r.serverValue
                          ELSE IF ranClient THEN r.clientValue
                          ELSE <<>>

\* C10 witness: a call resolved with the two-element array of both results.
C10_Witness ==
  \E i \in Invocations :
    /\ inv[i].pc = "done" /\ inv[i].outcome = "resolved"
    /\ inv[i].result = <<"array", <<"P">>, <<"C">>>>

\* the decision table of the decision engine, row by row
TableDecision(caller, m, isPrepared, allowLazy, initSelf, hasPrimary, hasRestricted) ==
  IF caller = "prepareComponent"
  THEN [errorIfUnprepared |-> FALSE,
        runPrimary |-> hasPrimary /\ ~isPrepared,
        runRestricted |-> FALSE]
  ELSE IF caller = "willMount"
  THEN [errorIfUnprepared |-> hasPrimary /\ m = MODE_PREPARE /\ ~allowLazy,
        runPrimary |-> hasPrimary /\
                       ((m = MODE_INIT_SELF /\ initSelf # INIT_SELF_NEVER /\ ~allowLazy)
                        \/ (m = MODE_PREPARE /\ ~isPrepared /\ allowLazy)),
        runRestricted |-> FALSE]
  ELSE IF caller = "didMount"
  THEN [errorIfUnprepared |-> FALSE,
        runPrimary |-> hasPrimary /\
                       ((m = MODE_INIT_SELF /\ initSelf # INIT_SELF_NEVER /\ allowLazy)
                        \/ (m = MODE_PREPARE /\ ~isPrepared /\ allowLazy)),
        runRestricted |-> hasRestricted /\ initSelf # INIT_SELF_NEVER]
  ELSE [errorIfUnprepared |-> FALSE,
        runPrimary |-> hasPrimary,
        runRestricted |-> hasRestricted]

\* the table row of a call under the component's configuration
TableRow(caller, m, isPrepared) ==
  TableDecision(caller, m, isPrepared, initConfig.allowLazy, initConfig.initSelf,
                initConfig.initAction, initConfig.initActionClient)

\* the three flags of the switch on caller agree with the table for every
\* caller, mode and isPrepared
DecisionMatchesTable ==
  \A caller \in ValidCallers, m \in {MODE_PREPARE, MODE_INIT_SELF}, isPrepared \in BOOLEAN :
    LET t == TableRow(caller, m, isPrepared)
    IN /\ ErrorNotPrepared(caller, initConfig, m) = t.errorIfUnprepared
       /\ ShouldCallInitAction(caller, initConfig, m, isPrepared) = t.runPrimary
       /\ ShouldCallInitActionClient(caller, initConfig) = t.runRestricted

\* a call of invocation i that got as far as the switch on caller does what
\* its table row says, whatever the rest of the state is
CallFollowsTable(i) ==
  (inv[i].pc = "idle" /\ inv'[i].pc # "idle" /\ inv'[i].observedMode # "none")
    => LET r == inv'[i]
           p == prepared[r.prepareKey]
           t == TableRow(r.caller, mode, p # Undefined)
           fails == t.errorIfUnprepared /\ p # "true"
       IN IF r.caller \notin ValidCallers
          THEN r.outcome = "threw" /\ r.error = "InvalidCaller"
          ELSE /\ fails <=> r.outcome = "threw"
               /\ fails => r.error = IF p = Undefined THEN "PreparationMissing"
                                     ELSE "PreparationPending"
               /\ ~fails => /\ r.pc = "then1" <=> (t.runPrimary \/ t.runRestricted)
                            /\ r.shouldCallInitAction = (r.pc = "then1" /\ t.runPrimary)
                            /\ r.shouldCallInitActionClient = (r.pc = "then1" /\ t.runRestricted)

\* C11: for every caller, mode, isPrepared and configuration the three flags
\* initComponent computes are those of the decision table, every call acts on
\* its table row alone, and a call with any other caller fails with
\* InvalidCaller.
C11_DecisionTable ==
  [][DecisionMatchesTable /\ \A i \in Invocations : CallFollowsTable(i)]_vars

\* C11 witness: a didMount call in init-self mode scheduled both actions while
\* an earlier willMount call scheduled none.
C11_Witness ==
  \E i, j \in Invocations :
    /\ inv[i].caller = "willMount" /\ inv[i].observedMode = MODE_INIT_SELF
    /\ inv[i].pc = "done" /\ inv[i].outcome = "resolved" /\ inv[i].starts = 0
    /\ inv[j].caller = "didMount" /\ inv[j].observedMode = MODE_INIT_SELF
    /\ inv[j].shouldCallInitAction /\ inv[j].shouldCallInitActionClient

\* invocation i hands its failure on: no onError, or the flagged failure
Propagates(i) == ~initConfig.onError \/ inv[i].isInvalidReturnError

\* C12: when an action has failed and the failure is handed on (no onError, or
\* the flagged InvalidActionReturn), the call rejects with that very failure
\* and, in the step in which it rejects, the end notification has been
\* emitted: the record of the key is true.
C12_PropagatedFailureEndsFirst ==
  [][\A i \in Invocations :
       (inv[i].pc = "catch" /\ Propagates(i) /\ inv'[i].pc = "done")
         => /\ inv'[i].outcome = "rejected"
            /\ inv'[i].error = inv[i].e
            /\ inv'[i].ends = 1
            /\ IF inv[i].caller = "prepareComponent"
               THEN prepared'[inv[i].prepareKey] = "true"
               ELSE selfInit'[inv[i].prepareKey] = "true"]_vars

\* C12 witness: a call without onError rejected with the failure of its
\* restricted action, the end notification emitted.
C12_Witness ==
  \E i \in Invocations :
    /\ ~initConfig.onError /\ inv[i].outcome = "rejected"
    /\ inv[i].initActionClientPromise = "rejected"
    /\ inv[i].error \in ActionFailures /\ inv[i].ends = 1

\* invocation i, a prepareComponent call, resolves in this step
PrepareResolves(i) ==
  /\ inv'[i].caller = "prepareComponent"
  /\ inv[i].outcome # "resolved" /\ inv'[i].outcome = "resolved"

\* C13 (as stated): with a primary action, whenever a prepareComponent call
\* resolves, prepared[key] is true at that moment, a second call for the key
\* made while the first is in flight included.
C13_ResolvedMeansPrepared ==
  [][\A i \in Invocations :
       (initConfig.initAction /\ PrepareResolves(i))
         => prepared'[inv'[i].prepareKey] = "true"]_vars

\* C13 (amended): a prepareComponent call that ran the primary action resolves
\* with prepared[key] true; a call that found prepared[key] defined resolves at
\* once and leaves the record as it found it, false included.
C13_RanMeansPreparedNoopLeavesRecord ==
  [][\A i \in Invocations :
       (initConfig.initAction /\ PrepareResolves(i))
         => IF inv'[i].starts = 1
            THEN prepared'[inv'[i].prepareKey] = "true"
            ELSE /\ inv[i].pc = "idle"
                 /\ prepared[inv'[i].prepareKey] # Undefined
                 /\ prepared' = prepared]_vars

\* C13 witness: a prepareComponent call that ran the primary action has
\* resolved, and so has a second call for the same key made meanwhile.
C13_Witness ==
  \E i, j \in Invocations :
    /\ i # j /\ inv[i].prepareKey = inv[j].prepareKey
    /\ inv[i].caller = "prepareComponent" /\ inv[j].caller = "prepareComponent"
    /\ inv[i].initActionCalls = 1 /\ inv[i].outcome = "resolved"
    /\ inv[j].observed = "false" /\ inv[j].outcome = "resolved"

\* the prepareComponent calls for key k that invoked the primary action
PreparePrimaryCallers(k) ==
  {i \in Invocations : /\ inv[i].caller = "prepareComponent"
                       /\ inv[i].prepareKey = k
                       /\ inv[i].initActionCalls > 0}

\* C14: over all prepareComponent calls for one key, in any interleaving, the
\* primary action is invoked at most once.
C14_PrimaryAtMostOncePerKey ==
  \A k \in PrepareKeys :
    /\ Cardinality(PreparePrimaryCallers(k)) <= 1
    /\ \A i \in PreparePrimaryCallers(k) : inv[i].initActionCalls = 1

\* C14 witness: two prepareComponent calls for one key, the first of which
\* invoked the primary action and is still waiting for it.
C14_Witness ==
  \E i, j \in Invocations :
    /\ i # j /\ inv[i].prepareKey = inv[j].prepareKey
    /\ inv[i].caller = "prepareComponent" /\ inv[j].caller = "prepareComponent"
    /\ inv[i].initActionCalls = 1 /\ inv[i].initActionPromise = "pending"
    /\ inv[j].pc = "done" /\ inv[j].initActionCalls = 0

\* C15: once every action has settled and the chain has run to its end, every
\* start notification has been followed by an end notification (same key and
\* flag: both come from the invocation's caller and prepareKey), also when
\* the onError handler itself fails.
C15_StartFollowedByEnd ==
  \A i \in Invocations : inv[i].pc = "done" => inv[i].ends >= inv[i].starts

\* invocation j takes a step
Steps(j) == inv'[j] # inv[j]

\* C16 (as stated): no step of another invocation occurs between an
\* invocation's start notification and the beginning of its primary action.
C16_NoStepBeforePrimary ==
  [][\A i \in Invocations :
       (inv[i].pc = "then1" /\ inv[i].shouldCallInitAction)
         => \A j \in Invocations \ {i} : ~Steps(j)]_vars

\* C16 (amended): the read of prepared[prepareKey], the decision and the start
\* notification are one step without a suspension point; the primary action
\* has not begun when that step ends, so other invocations may step before it.
C16_ReadDecideStartAtomic ==
  [][\A i \in Invocations :
       (inv[i].pc = "idle" /\ inv'[i].pc = "then1")
         => LET r == inv'[i] IN
            /\ r.observed = prepared[r.prepareKey]
            /\ r.shouldCallInitAction \/ r.shouldCallInitActionClient
            /\ r.starts = 1
            /\ IF r.caller = "prepareComponent"
               THEN prepared'[r.prepareKey] = "false"
               ELSE selfInit'[r.prepareKey] = "false"
            /\ r.initActionCalls = 0 /\ r.initActionClientCalls = 0
            /\ \A j \in Invocations \ {i} : ~Steps(j)]_vars

\* C16 witness: an invocation has emitted its start notification and not yet
\* begun its primary action while a later invocation has already been called.
C16_Witness ==
  \E i, j \in Invocations :
    /\ i < j
    /\ inv[i].pc = "then1" /\ inv[i].shouldCallInitAction
    /\ inv[i].starts = 1 /\ inv[i].initActionCalls = 0
    /\ inv[j].pc # "idle"

\* invocation i has an action in flight
InFlight(i) ==
  inv[i].initActionPromise = "pending" \/ inv[i].initActionClientPromise = "pending"

\* the invocations for key k made by prepareComponent (TRUE) or by the other
\* callers (FALSE)
InvocationsFor(k, isPrepare) ==
  {i \in Invocations : /\ inv[i].prepareKey = k
                       /\ inv[i].caller \in ValidCallers
                       /\ (inv[i].caller = "prepareComponent") = isPrepare}

\* while prepared[k] is true no prepareComponent invocation for k has an
\* action in flight
PreparedTrueMeansNoneInFlight(k) ==
  prepared[k] = "true" => \A i \in InvocationsFor(k, TRUE) : ~InFlight(i)

\* C17 (as stated): while prepared[key] is true no prepareComponent invocation
\* for the key has an action in flight, and while selfInit[key] is true no
\* invocation of another caller for the key has one.
C17_TrueMeansNoneInFlight ==
  \A k \in PrepareKeys :
    /\ PreparedTrueMeansNoneInFlight(k)
    /\ selfInit[k] = "true" => \A i \in InvocationsFor(k, FALSE) : ~InFlight(i)

\* C17 (amended): the half about prepared holds; selfInit[key] true means that
\* some invocation of another caller for the key has emitted its end, and
\* that none is in flight only if no two of them have started for the key.
C17_PreparedExactSelfInitSomeEnded ==
  \A k \in PrepareKeys :
    /\ PreparedTrueMeansNoneInFlight(k)
    /\ selfInit[k] = "true" =>
         LET started == {i \in InvocationsFor(k, FALSE) : inv[i].starts = 1}
         IN /\ \E i \in started : inv[i].ends = 1
            /\ Cardinality(started) <= 1 => \A i \in started : ~InFlight(i)

\* C17 witness: selfInit[key] is true after the end of one invocation while an
\* overlapping invocation for the key still waits for its action, and
\* prepared[key] is true after a finished preparation.
C17_Witness ==
  \E i, j \in Invocations :
    /\ i # j /\ inv[i].prepareKey = inv[j].prepareKey
    /\ inv[i].caller = "didMount" /\ inv[j].caller = "willReceiveProps"
    /\ selfInit[inv[i].prepareKey] = "true"
    /\ (inv[i].ends = 1 /\ InFlight(j)) \/ (inv[j].ends = 1 /\ InFlight(i))

\* C17 witness of the half that holds as stated: a finished preparation.
C17_PreparedWitness ==
  \E i \in Invocations :
    /\ inv[i].caller = "prepareComponent" /\ inv[i].initActionPromise = "resolved"
    /\ inv[i].ends = 1 /\ prepared[inv[i].prepareKey] = "true"

\* C18: a step of a prepareComponent invocation changes at most
\* prepared[prepareKey], a step of any other invocation at most
\* selfInit[prepareKey]; no step of an invocation changes the record of
\* another key, the other map or the mode.
C18_Frame ==
  [][\A i \in Invocations :
       Steps(i)
         => LET r == inv'[i] IN
            /\ mode' = mode
            /\ \A k \in PrepareKeys \ {r.prepareKey} :
                 prepared'[k] = prepared[k] /\ selfInit'[k] = selfInit[k]
            /\ IF r.caller = "prepareComponent"
               THEN selfInit' = selfInit
               ELSE prepared' = prepared]_vars

\* C18 witness: a prepareComponent invocation has changed prepared for one key
\* and an invocation of another caller selfInit for another key.
C18_Witness ==
  \E i, j \in Invocations :
    /\ inv[i].caller = "prepareComponent" /\ inv[j].caller = "didMount"
    /\ inv[i].prepareKey # inv[j].prepareKey
    /\ inv[i].ends = 1 /\ inv[j].ends = 1
    /\ prepared[inv[i].prepareKey] = "true" /\ selfInit[inv[i].prepareKey] = Undefined
    /\ selfInit[inv[j].prepareKey] = "true" /\ prepared[inv[j].prepareKey] = Undefined

\* the primary action of record r was invoked and failed: it threw, returned
\* something that is not awaitable, or its promise rejected
PrimaryFailed(r) ==
  r.initActionCalls = 1 /\ r.initActionPromise \in {"none", "rejected"}

\* C19: when both actions are scheduled and the primary action fails, the
\* restricted action is never invoked in that invocation, whether the failure
\* is handled by onError or handed on.
C19_FailedPrimarySkipsRestricted ==
  \A i \in Invocations :
    (inv[i].shouldCallInitAction /\ inv[i].shouldCallInitActionClient
       /\ PrimaryFailed(inv[i]))
      => inv[i].initActionClientCalls = 0

\* C19 witness: both actions scheduled, the primary action rejected, onError
\* handled the failure and the call resolved.
C19_Witness ==
  \E i \in Invocations :
    /\ inv[i].shouldCallInitAction /\ inv[i].shouldCallInitActionClient
    /\ inv[i].initActionPromise = "rejected" /\ inv[i].onErrorCalls = 1
    /\ inv[i].pc = "done" /\ inv[i].outcome = "resolved"

\* start exactly once and before the first action; end only once every action
\* invoked has settled
StartBeforeEndAfter(i) ==
  LET r == inv[i] IN
  /\ r.starts <= 1 /\ r.ends <= 1
  /\ (r.initActionCalls > 0 \/ r.initActionClientCalls > 0) => r.starts = 1
  /\ r.ends = 1 => /\ r.starts = 1
                   /\ r.initActionPromise # "pending"
                   /\ r.initActionClientPromise # "pending"

\* C20: in every invocation that runs an action the start notification is
\* emitted exactly once and before the first action is invoked, the end
\* notification only after every action it invoked has settled, and no action
\* begins before the start or after the end.
C20_ActionsBetweenStartAndEnd ==
  [][\A i \in Invocations :
       /\ StartBeforeEndAfter(i) /\ StartBeforeEndAfter(i)'
       /\ (inv'[i].initActionCalls > inv[i].initActionCalls
           \/ inv'[i].initActionClientCalls > inv[i].initActionClientCalls)
            => inv[i].starts = 1 /\ inv[i].ends = 0]_vars

\* C20 witness: both actions ran and settled, and the end notification
\* followed.
C20_Witness ==
  \E i \in Invocations :
    /\ inv[i].initActionCalls = 1 /\ inv[i].initActionClientCalls = 1
    /\ inv[i].initActionPromise = "resolved"
    /\ inv[i].initActionClientPromise \in {"resolved", "rejected"}
    /\ inv[i].starts = 1 /\ inv[i].ends = 1
====
